---- MODULE Spec2Model ----
(***************************************************************************)
(* A model of the drive stack of CarND-Capstone: the traffic-light         *)
(* detector node (tl_detector.py, tl_classifier.py) and the waypoint       *)
(* updater node (waypoint_updater.py).                                     *)
(*                                                                         *)
(* Positions are integer points of the plane.  A velocity that the planner *)
(* computes as sqrt(2*MAX_DECEL*dist) is carried as its square, which      *)
(* keeps the order and the equality of non-negative velocities exact.      *)
(***************************************************************************)
EXTENDS Integers, Sequences, FiniteSets, TLC

(* ----------------------------------------------------------------------- *)
(* Program constants                                                       *)
(* ----------------------------------------------------------------------- *)

STATE_COUNT_THRESHOLD == 3

LOOKAHEAD_WPS == 50

MAX_DECEL == 1

(* ----------------------------------------------------------------------- *)
(* Bounds of the model                                                     *)
(* ----------------------------------------------------------------------- *)

\* The long route is the perimeter of a rectangle of RectW by RectH segments.
RectW == 20

RectH == 8

\* Distance between consecutive waypoints of a route.
Spacing == 4

\* image_cb is not taken once state_count would pass MaxCount.
MaxCount == 5

\* How far beside the route the car is looked up.
Drift == 1

\* control is not called more than MaxTicks times.
MaxTicks == 3

(* ----------------------------------------------------------------------- *)
(* Python values                                                           *)
(* ----------------------------------------------------------------------- *)

\* Python's None, where the attribute otherwise holds an object (a message, a
\* list, a light); every such object is a non-empty tuple here.
None == << >>

\* An attribute that __init__ has not assigned yet: reading it raises
\* AttributeError.
Unset == "Unset"

\* Python's True, as the value of an attribute that may still be unassigned.
PyTrue == "True"

\* seq[i] with Python's indexing: 0-based, a negative i counts from the end.
PyIndex(seq, i) == IF i < 0 THEN seq[Len(seq) + i + 1] ELSE seq[i + 1]

\* seq[a:b] with Python's slicing for 0 <= a: the slice is cut at the end of
\* the list and is empty when b <= a.
PySlice(seq, a, b) ==
    LET hi == IF b < 0 THEN Len(seq) + b
              ELSE IF b > Len(seq) THEN Len(seq) ELSE b
    IN  IF a >= hi THEN << >> ELSE SubSeq(seq, a + 1, hi)

Max(a, b) == IF a >= b THEN a ELSE b

Min(a, b) == IF a <= b THEN a ELSE b

Abs(a) == IF a < 0 THEN -a ELSE a

(* ----------------------------------------------------------------------- *)
(* Routes: the /base_waypoints messages                                    *)
(* ----------------------------------------------------------------------- *)

\* The nominal velocity (m/s) of waypoint k of a route.
NominalVelocity(k) == IF k % 5 = 0 THEN 3 ELSE 11

\* Waypoint k (0-based) of the rectangle of w by h segments of length s,
\* driven counterclockwise from the origin.
RectPoint(w, h, s, k) ==
    IF k < w THEN <<k * s, 0>>
    ELSE IF k < w + h THEN <<w * s, (k - w) * s>>
    ELSE IF k < 2 * w + h THEN <<(2 * w + h - k) * s, h * s>>
    ELSE <<0, (2 * w + 2 * h - k) * s>>

\* A Lane message: its waypoints, each with a position and a velocity.
RectRoute(w, h, s) ==
    [k \in 1..(2 * (w + h)) |->
        [x |-> RectPoint(w, h, s, k - 1)[1],
         y |-> RectPoint(w, h, s, k - 1)[2],
         v |-> NominalVelocity(k - 1)]]

\* The route of 4 waypoints in a square.
SquareRoute == RectRoute(1, 1, Spacing)

LongRoute == RectRoute(RectW, RectH, Spacing)

Routes == {SquareRoute, LongRoute}

(* ----------------------------------------------------------------------- *)
(* Nearest waypoint: KDTree.query and the half-plane test                  *)
(* ----------------------------------------------------------------------- *)

\* The list of [x, y] built from a route by waypoints_cb.
Waypoints2D(route) == [k \in 1..Len(route) |-> <<route[k].x, route[k].y>>]

Dot(a, b) == a[1] * b[1] + a[2] * b[2]

Sub(a, b) == <<a[1] - b[1], a[2] - b[2]>>

\* The squared Euclidean distance: KDTree.query minimises the distance.
Dist2(a, b) == Dot(Sub(a, b), Sub(a, b))

\* KDTree(waypoints_2d).query([x, y], 1)[1]: the (0-based) indices of the
\* waypoints at minimal distance.  Which of several equidistant waypoints the
\* tree returns is left open.
KDQuery(w2d, p) ==
    LET ds == {Dist2(w2d[k], p) : k \in 1..Len(w2d)}
        m == CHOOSE d \in ds : \A e \in ds : d <= e
    IN  {c \in 0..(Len(w2d) - 1) : Dist2(PyIndex(w2d, c), p) = m}

MutAhead(val) == val < 0

\* `if val > 0` of both nodes: the position is past the closest waypoint.
Ahead(val) == val > 0

\* TLDetector.get_closest_waypoint, after the tree has answered closest_idx.
get_closest_waypoint(w2d, closest_idx, p) ==
    LET closest_coord == PyIndex(w2d, closest_idx)
        prev_coord == PyIndex(w2d, closest_idx - 1)
        val == Dot(Sub(closest_coord, prev_coord), Sub(p, closest_coord))
    IN  IF Ahead(val) THEN (closest_idx + 1) % Len(w2d) ELSE closest_idx

\* WaypointUpdater.get_closest_waypoint_idx, after the tree has answered
\* closest_idx: the previous coordinate is taken two waypoints back.
get_closest_waypoint_idx(w2d, closest_idx, p) ==
    LET closest_coord == PyIndex(w2d, closest_idx)
        prev_coord == PyIndex(w2d, closest_idx - 2)
        val == Dot(Sub(closest_coord, prev_coord), Sub(p, closest_coord))
    IN  IF Ahead(val) THEN (closest_idx + 1) % Len(w2d) ELSE closest_idx

\* The integer points strictly between two waypoints that lie on one axis.
Between(a, b) ==
    LET n == Abs(b[1] - a[1]) + Abs(b[2] - a[2])
    IN  {<<a[1] + (k * (b[1] - a[1])) \div n, a[2] + (k * (b[2] - a[2])) \div n>> :
            k \in 1..(n - 1)}

(* ----------------------------------------------------------------------- *)
(* tl_classifier.py                                                        *)
(* ----------------------------------------------------------------------- *)

\* TLClassifier.threshold (0.25), in hundredths.
ScoreThreshold == 25

\* What the detection graph may answer for a frame: the class and the score
\* (in hundredths) of its best detection.  Class 4 stands for any class that
\* is not 1, 2 or 3.
Classes == {1, 2, 3, 4}

Scores == {10, 25, 90}

\* TLClassifier.get_classification, from the best detection.
get_classification(cls, score) ==
    IF score > ScoreThreshold /\ cls = 1 THEN "GREEN"
    ELSE IF score > ScoreThreshold /\ cls = 2 THEN "YELLOW"
    ELSE IF score > ScoreThreshold /\ cls = 3 THEN "RED"
    ELSE "UNKNOWN"

(* ----------------------------------------------------------------------- *)
(* tl_detector.py: inputs                                                  *)
(* ----------------------------------------------------------------------- *)

\* The point j units past waypoint k of the long route, toward waypoint k+1.
RoutePoint(k, j) ==
    LET n == 2 * (RectW + RectH)
        a == RectPoint(RectW, RectH, Spacing, k % n)
        b == RectPoint(RectW, RectH, Spacing, (k + 1) % n)
    IN  <<a[1] + (j * (b[1] - a[1])) \div Spacing,
          a[2] + (j * (b[2] - a[2])) \div Spacing>>

\* config['stop_line_positions']: the first stop line lies just before
\* waypoint 40, the second at waypoint 12, the third at waypoint 40.
StopLinesA == <<RoutePoint(39, Spacing - 1), RoutePoint(12, 0), RoutePoint(40, 0)>>

\* Another configuration: stop lines at waypoints 40, 3, 12 and 40.
StopLinesB == <<RoutePoint(40, 0), RoutePoint(3, 0), RoutePoint(12, 0),
                RoutePoint(39, Spacing - 1)>>

\* The poses /current_pose delivers to the detector.
DetectorPoses ==
    {RoutePoint(10, 1), RoutePoint(13, 0), RoutePoint(39, Spacing \div 2),
     RoutePoint(45, 0)}

\* msg.lights of /vehicle/traffic_lights: the first k tracked lights.
LightsMsg(k) == [i \in 1..k |-> <<"light", i>>]

(* ----------------------------------------------------------------------- *)
(* tl_detector.py: state                                                   *)
(* ----------------------------------------------------------------------- *)

VARIABLES
    ctor,               \* how far TLDetector.__init__ has come
    light_classifier,   \* self.light_classifier
    pose,               \* self.pose: None or the position of the car
    waypoints,          \* self.waypoints: None or the route
    waypoints_2d,       \* self.waypoints_2d
    waypoint_tree,      \* self.waypoint_tree: None or the list it indexes
    lights,             \* self.lights
    config,             \* self.config['stop_line_positions']
    has_image,          \* self.has_image
    state,              \* self.state
    last_state,         \* self.last_state
    last_wp,            \* self.last_wp
    state_count,        \* self.state_count
    cb,                 \* how the last image_cb ended
    published,          \* the values the last image_cb published on /traffic_waypoint
    closest_light,      \* closest_light of the last process_traffic_lights
    light_wp,           \* line_wp_idx it returned to image_cb (-1: none)
    raw,                \* the state returned to the last image_cb that got one
    run,                \* length of the current run of identical raw states
    nonred,             \* length of the current run of raw states other than RED
    frames              \* frames that reached the debounce step

detVars ==
    <<ctor, light_classifier, pose, waypoints, waypoints_2d, waypoint_tree,
      lights, config, has_image, state, last_state, last_wp, state_count,
      cb, published, closest_light, light_wp, raw, run, nonred, frames>>

\* The fields image_cb does not assign.
detInputs ==
    <<ctor, light_classifier, pose, waypoints, waypoints_2d, waypoint_tree,
      lights, config>>

\* The debounce state and its history.
detFusion == <<state, last_state, last_wp, state_count, run, nonred, frames>>

(* ----------------------------------------------------------------------- *)
(* waypoint_updater.py: state                                              *)
(* ----------------------------------------------------------------------- *)

VARIABLES
    wu_pose,            \* WaypointUpdater.pose: None or the position of the car
    base_waypoints,     \* WaypointUpdater.base_waypoints: None or the route
    wu_waypoints_2d,    \* WaypointUpdater.waypoints_2d
    wu_waypoint_tree,   \* WaypointUpdater.waypoint_tree
    stopline_wp_idx,    \* WaypointUpdater.stopline_wp_idx
    closest_idx,        \* closest_waypoint_index of the last pass of loop (-1: none)
    final_waypoints     \* the lanes the last pass of loop published

wuVars ==
    <<wu_pose, base_waypoints, wu_waypoints_2d, wu_waypoint_tree, stopline_wp_idx,
      closest_idx, final_waypoints>>

(* ----------------------------------------------------------------------- *)
(* One nearest-waypoint lookup of both nodes                               *)
(* ----------------------------------------------------------------------- *)

VARIABLES
    lookup              \* the last lookup: its route, position and results

(* ----------------------------------------------------------------------- *)
(* twist_controller.py: state                                              *)
(* ----------------------------------------------------------------------- *)

\* Velocities are in cm/s, times in 1/100 s, accelerations in cm/s^2, the
\* throttle in 1/100000 and the brake torque in 1/10000 N*m, so that the
\* arithmetic of control is exact in integers.

VARIABLES
    last_time,            \* Controller.last_time
    last_velocity,        \* Controller.last_velocity
    throttle_controller,  \* the memory of the throttle PID
    velocity_lpf,         \* the memory of the low-pass filter
    command,              \* what the last control returned: throttle, brake, steering
    tick                  \* the last call of control and what it handed to the PID

ctlVars ==
    <<last_time, last_velocity, throttle_controller, velocity_lpf, command, tick>>

vars == <<detVars, wuVars, lookup, ctlVars>>

\* What the detector's actions leave alone.
detOutside == <<wuVars, lookup, ctlVars>>

\* What the planner's actions leave alone.
wuOutside == <<detVars, lookup, ctlVars>>

\* What the controller's actions leave alone.
ctlOutside == <<detVars, wuVars, lookup>>

(* ----------------------------------------------------------------------- *)
(* waypoint_updater.py: generate_lane and decelerate_waypoints             *)
(* ----------------------------------------------------------------------- *)

\* dl of WaypointUpdater.distance for two waypoints that lie on one axis, as
\* consecutive waypoints of every route here do: the Euclidean distance is
\* then the difference of the coordinate that differs.
SegmentLength(a, b) == Abs(a.x - b.x) + Abs(a.y - b.y)

\* The sum of dl over the consecutive waypoints a..b (0-based) of the list.
RECURSIVE PathLength(_, _, _)
PathLength(wps, a, b) ==
    IF a >= b THEN 0
    ELSE IF b = a + 1 THEN SegmentLength(PyIndex(wps, a), PyIndex(wps, b))
    ELSE LET m == (a + b) \div 2
         IN  PathLength(wps, a, m) + PathLength(wps, m, b)

\* WaypointUpdater.distance(waypoints, wp1, wp2): range(wp1, wp2 + 1) starts
\* with dl of waypoint wp1 to itself and then adds every segment up to wp2.
distance(wps, wp1, wp2) == PathLength(wps, wp1, wp2)

\* A waypoint of a published lane: its position and the square of
\* twist.twist.linear.x.
LaneWaypoint(wp, vsq) == [x |-> wp.x, y |-> wp.y, vsq |-> vsq]

\* A waypoint of the route as it stands in a published lane.
RouteWaypoint(wp) == LaneWaypoint(wp, wp.v * wp.v)

\* Lines 102-107: the square of the velocity decelerate_waypoints gives the
\* waypoint wp of its list.  velocity < 0.5 is 4 * velocity^2 < 1.
DecelVelocity2(wps, wp, stop_idx) ==
    LET dist == distance(wps, 0, stop_idx)
        vsq == 2 * MAX_DECEL * dist
        velocity2 == IF 4 * vsq < 1 THEN 0 ELSE vsq
    IN  Min(velocity2, wp.v * wp.v)

\* `stop_idx = max(self.stopline_wp_idx - closest_idx - 2, 0)`.
StopOffset(stopline, closest) == Max(stopline - closest - 2, 0)

\* WaypointUpdater.decelerate_waypoints: the loop leaves at i == stop_idx,
\* before it appends, so that temp holds the waypoints 0..stop_idx-1.
decelerate_waypoints(wps, closest, stopline) ==
    LET stop_idx == StopOffset(stopline, closest)
        n == Min(stop_idx, Len(wps))
    IN  [i \in 1..n |-> LaneWaypoint(wps[i], DecelVelocity2(wps, wps[i], stop_idx))]

\* `closest_idx + LOOKAHEAD_WPS`: the end of the slice of the base case.
Horizon(closest) == closest + LOOKAHEAD_WPS

\* `self.stopline_wp_idx == -1 or self.stopline_wp_idx >= closest_idx + LOOKAHEAD_WPS`.
NoStopAhead(stopline, closest) == stopline = -1 \/ stopline >= closest + LOOKAHEAD_WPS

\* WaypointUpdater.generate_lane: lane.waypoints.
generate_lane(base, closest, stopline) ==
    IF NoStopAhead(stopline, closest)
    THEN LET sl == PySlice(base, closest, Horizon(closest))
         IN  [i \in 1..Len(sl) |-> RouteWaypoint(sl[i])]
    ELSE decelerate_waypoints(PySlice(base, closest, stopline), closest, stopline)

(* ----------------------------------------------------------------------- *)
(* waypoint_updater.py: loop and the callbacks                             *)
(* ----------------------------------------------------------------------- *)

\* One pass of WaypointUpdater.loop with pose and tree available: it looks
\* the car up and publishes the lane.
loop ==
    /\ UNCHANGED wuOutside
    /\ wu_pose # None
    /\ wu_waypoint_tree # None
    /\ \E c \in KDQuery(wu_waypoints_2d, wu_pose) :
          LET idx == get_closest_waypoint_idx(wu_waypoints_2d, c, wu_pose)
          IN  /\ closest_idx' = idx
              /\ final_waypoints' = <<generate_lane(base_waypoints, idx, stopline_wp_idx)>>
    /\ UNCHANGED <<wu_pose, base_waypoints, wu_waypoints_2d, wu_waypoint_tree,
                   stopline_wp_idx>>

wu_pose_cb(msg) ==
    /\ UNCHANGED wuOutside
    /\ wu_pose' = msg
    /\ UNCHANGED <<base_waypoints, wu_waypoints_2d, wu_waypoint_tree,
                   stopline_wp_idx, closest_idx, final_waypoints>>

wu_waypoints_cb(msg) ==
    /\ UNCHANGED wuOutside
    /\ base_waypoints' = msg
    /\ IF wu_waypoints_2d = None
       THEN /\ wu_waypoints_2d' = Waypoints2D(msg)
            /\ wu_waypoint_tree' = Waypoints2D(msg)
       ELSE UNCHANGED <<wu_waypoints_2d, wu_waypoint_tree>>
    /\ UNCHANGED <<wu_pose, stopline_wp_idx, closest_idx, final_waypoints>>

wu_traffic_cb(msg) ==
    /\ UNCHANGED wuOutside
    /\ stopline_wp_idx' = msg
    /\ UNCHANGED <<wu_pose, base_waypoints, wu_waypoints_2d, wu_waypoint_tree,
                   closest_idx, final_waypoints>>

\* The planner after lines 41-45 of __init__, before the first pass of loop.
PlannerInit ==
    /\ wu_pose = None
    /\ base_waypoints = None
    /\ wu_waypoints_2d = None
    /\ wu_waypoint_tree = None
    /\ stopline_wp_idx = -1
    /\ closest_idx = -1
    /\ final_waypoints = << >>

\* The waypoints of a route and the points between each and the next.
PosesOn(route) ==
    LET w2d == Waypoints2D(route)
    IN  UNION {{PyIndex(w2d, k)} \cup
               Between(PyIndex(w2d, k), PyIndex(w2d, (k + 1) % Len(w2d))) :
                   k \in 0..(Len(w2d) - 1)}

\* The stop indices /traffic_waypoint delivers: none, and waypoints of the route.
StopIndices(route) == {s \in {-1, 0, 3, 12, 40, 52, 55} : s < Len(route)}

\* The planner in its loop with a route, a pose and a stop index received.
PlanInit ==
    /\ base_waypoints \in Routes
    /\ wu_waypoints_2d = Waypoints2D(base_waypoints)
    /\ wu_waypoint_tree = Waypoints2D(base_waypoints)
    /\ wu_pose \in PosesOn(base_waypoints)
    /\ stopline_wp_idx \in StopIndices(base_waypoints)
    /\ closest_idx = -1
    /\ final_waypoints = << >>

(* ----------------------------------------------------------------------- *)
(* The lookup of both nodes for one position                               *)
(* ----------------------------------------------------------------------- *)

\* No lookup yet on the route both nodes have received.
NoLookup(route) ==
    [route |-> route, seg |-> -1, p |-> <<0, 0>>, closest_idx |-> -1,
     tl_detector |-> -1, waypoint_updater |-> -1]

\* Both nodes look up the position p, strictly between waypoint seg and the
\* next one; the tree answers c.
Lookup(seg, p, c) ==
    /\ UNCHANGED <<detVars, wuVars, ctlVars>>
    /\ lookup' =
          [route |-> lookup.route, seg |-> seg, p |-> p, closest_idx |-> c,
           tl_detector |-> get_closest_waypoint(Waypoints2D(lookup.route), c, p),
           waypoint_updater |->
               get_closest_waypoint_idx(Waypoints2D(lookup.route), c, p)]

LookupInit == lookup \in {NoLookup(r) : r \in Routes}

LookupNext ==
    LET w2d == Waypoints2D(lookup.route)
    IN  \E seg \in 0..(Len(w2d) - 1) :
        \E p \in Between(PyIndex(w2d, seg), PyIndex(w2d, (seg + 1) % Len(w2d))) :
        \E c \in KDQuery(w2d, p) :
            Lookup(seg, p, c)

\* The position lies at most Drift beside the route.
NearRoute(route, p) ==
    \E q \in PosesOn(route) :
        Abs(p[1] - q[1]) <= Drift /\ Abs(p[2] - q[2]) <= Drift

\* The car moves by at most one unit along each axis, staying near the
\* route, and both nodes look its position up; the tree answers c.
LookupNear ==
    \E dx \in {-1, 0, 1} : \E dy \in {-1, 0, 1} :
        LET p == <<lookup.p[1] + dx, lookup.p[2] + dy>>
        IN  /\ NearRoute(lookup.route, p)
            /\ \E c \in KDQuery(Waypoints2D(lookup.route), p) : Lookup(-1, p, c)

(* ----------------------------------------------------------------------- *)
(* twist_controller.py: Controller                                         *)
(* ----------------------------------------------------------------------- *)

\* Lines 17-21: the gains of the throttle PID, in tenths, and the limits of
\* its output.
kp == 3

ki == 1

kd == 0

mn == 0

mx == 1

\* Lines 25-26: time constant and sample period of the filter, in 1/100 s.
tau == 50

ts == 2

\* Lines 29-33, arguments of __init__: kg, cm/s^2 and cm.
vehicle_mass == 1736

decel_limit == -500

wheel_radius == 24

\* Line 15: the largest steering angle the yaw controller returns.
max_steer_angle == 1

\* PID.reset: the integral memory is cleared.
PIDReset(pid) == [pid EXCEPT !.int_val = 0]

\* PID.step(error, sample_time): the output kp * error + ki * integral +
\* kd * derivative, held within mn..mx, and the memory after the step.
PIDStep(pid, error, sample_time) ==
    LET integral == pid.int_val + error * sample_time
        derivative == (error - pid.last_error) \div sample_time
        val == kp * 100 * error + ki * integral + kd * 10000 * derivative
    IN  [output |-> Max(mn * 100000, Min(val, mx * 100000)),
         pid |-> [int_val |-> integral, last_error |-> error]]

\* LowPassFilter.filt(val): the first sample passes, a later one is blended
\* with the last output in the ratio ts : tau (to the whole cm/s below).
LowPassFilt(lpf, val) ==
    LET out == IF lpf.ready
               THEN (ts * val + tau * lpf.last_val) \div (tau + ts)
               ELSE val
    IN  [output |-> out, lpf |-> [ready |-> TRUE, last_val |-> out]]

\* YawController.get_steering: the angles it may return, within the largest
\* steering angle and on the side of the angular velocity; 0 when the car
\* stands, goes straight or is to stand.
get_steering(linear_velocity, angular_velocity, current_velocity) ==
    IF linear_velocity = 0 \/ angular_velocity = 0 \/ current_velocity = 0
    THEN {0}
    ELSE IF angular_velocity > 0 THEN 1..max_steer_angle
    ELSE {-a : a \in 1..max_steer_angle}

MutDisengage(pid) == pid

\* Line 42: `self.throttle_controller.reset()`.
Disengage(pid) == PIDReset(pid)

MutBrakingDecelFirst(throttle, linear_velocity, current_velocity, velocity_error) ==
    IF throttle < 10000 /\ velocity_error < 0
    THEN [throttle |-> throttle,
          brake |-> Abs(Max(velocity_error, decel_limit)) * vehicle_mass * wheel_radius]
    ELSE IF linear_velocity = 0 /\ current_velocity < 10
    THEN [throttle |-> 0, brake |-> 400 * 10000]
    ELSE [throttle |-> throttle, brake |-> 0]

\* Lines 60-71: throttle and brake from the throttle of the PID.
Braking(throttle, linear_velocity, current_velocity, velocity_error) ==
    IF linear_velocity = 0 /\ current_velocity < 10
    THEN [throttle |-> 0, brake |-> 400 * 10000]
    ELSE IF throttle < 10000 /\ velocity_error < 0
    THEN [throttle |-> throttle,
          brake |-> Abs(Max(velocity_error, decel_limit)) * vehicle_mass * wheel_radius]
    ELSE [throttle |-> throttle, brake |-> 0]

\* No call of control yet; the clock read 0 when __init__ ran.
NoTick ==
    [count |-> 0, dbw_enabled |-> FALSE, after_enabled |-> FALSE, time |-> 0,
     since_previous |-> 0, sample_time |-> 0, int_val |-> 0, throttle |-> 0,
     linear_velocity |-> 0, current_velocity |-> 0, velocity_error |-> 0]

\* Controller.control, called when the clock reads current_time.
control(current_velocity, dbw_enabled, linear_velocity, angular_velocity, current_time) ==
    LET called == [NoTick EXCEPT !.count = tick.count + 1,
                                 !.dbw_enabled = dbw_enabled,
                                 !.after_enabled = tick.dbw_enabled,
                                 !.time = current_time,
                                 !.since_previous = current_time - tick.time]
    IN
    /\ UNCHANGED ctlOutside
    /\ tick.count < MaxTicks
    /\ IF ~dbw_enabled
       THEN /\ throttle_controller' = Disengage(throttle_controller)
            /\ command' = <<0, 0, 0>>
            /\ tick' = called
            /\ UNCHANGED <<last_time, last_velocity, velocity_lpf>>
       ELSE LET filtered == LowPassFilt(velocity_lpf, current_velocity)
                velocity_error == linear_velocity - filtered.output
                sample_time == current_time - last_time
                step == PIDStep(throttle_controller, velocity_error, sample_time)
                out == Braking(step.output, linear_velocity, filtered.output,
                               velocity_error)
            IN  /\ velocity_lpf' = filtered.lpf
                /\ last_velocity' = filtered.output
                /\ last_time' = current_time
                /\ throttle_controller' = step.pid
                /\ \E steering \in get_steering(linear_velocity, angular_velocity,
                                                filtered.output) :
                      command' = <<out.throttle, out.brake, steering>>
                /\ tick' = [called EXCEPT !.sample_time = sample_time,
                                          !.int_val = throttle_controller.int_val,
                                          !.throttle = step.output,
                                          !.linear_velocity = linear_velocity,
                                          !.current_velocity = filtered.output,
                                          !.velocity_error = velocity_error]

\* The controller after __init__ (lines 15-36).
ControllerInit ==
    /\ last_time = 0
    /\ last_velocity = 0
    /\ throttle_controller = [int_val |-> 0, last_error |-> 0]
    /\ velocity_lpf = [ready |-> FALSE, last_val |-> 0]
    /\ command = << >>
    /\ tick = NoTick

\* The velocities /current_velocity reports, the targets /twist_cmd asks for
\* and the time between two readings of the clock.
CurrentVelocities == {0, 5, 790, 1000}

LinearVelocities == {0, 800}

AngularVelocities == {0, 1}

ClockSteps == {ts, 100}

\* One control tick of the node: control is called with what the node has
\* last received.
ControllerNext ==
    \E current_velocity \in CurrentVelocities, dbw_enabled \in BOOLEAN,
       linear_velocity \in LinearVelocities,
       angular_velocity \in AngularVelocities, dt \in ClockSteps :
        control(current_velocity, dbw_enabled, linear_velocity, angular_velocity,
                tick.time + dt)

(* ----------------------------------------------------------------------- *)
(* tl_detector.py: process_traffic_lights and get_light_state              *)
(* ----------------------------------------------------------------------- *)

\* The sequences that take their i-th element from the i-th of the sets.
RECURSIVE SeqsOf(_)
SeqsOf(sets) ==
    IF Len(sets) = 0 THEN {<< >>}
    ELSE {<<h>> \o t : h \in Head(sets), t \in SeqsOf(Tail(sets))}

\* What get_closest_waypoint may return for a position.
ClosestWaypoints(w2d, p) ==
    {get_closest_waypoint(w2d, c, p) : c \in KDQuery(w2d, p)}

\* temp_wp_idx of every light of self.lights, in enumeration order.
StopLineIdxs(w2d, lts, stop_line_positions) ==
    SeqsOf([i \in 1..Len(lts) |-> ClosestWaypoints(w2d, stop_line_positions[i])])

MutEligibleLast(d, diff) == d >= 0 /\ d <= diff

\* `if d >= 0 and d < diff` of process_traffic_lights.
Eligible(d, diff) == d >= 0 /\ d < diff

\* The loop over enumerate(self.lights), from light i on.
RECURSIVE LightLoop(_, _, _, _, _)
LightLoop(lts, idxs, car_way_point_idx, i, acc) ==
    IF i > Len(lts) THEN acc
    ELSE LET d == idxs[i] - car_way_point_idx
         IN  LightLoop(lts, idxs, car_way_point_idx, i + 1,
                 IF Eligible(d, acc.diff)
                 THEN [acc EXCEPT !.diff = d, !.closest_light = lts[i],
                                  !.line_wp_idx = idxs[i]]
                 ELSE acc)

\* The locals of a process_traffic_lights that has not reached the loop.
NotLocated == [diff |-> 0, closest_light |-> None, line_wp_idx |-> -1]

\* process_traffic_lights up to `if closest_light`: the light it selects and
\* its stop line.  car_way_point_idx and idxs are what get_closest_waypoint
\* returned for the car and for the stop lines.
process_traffic_lights(p, route, lts, car_way_point_idx, idxs) ==
    IF p = None THEN NotLocated
    ELSE LightLoop(lts, idxs, car_way_point_idx, 1,
             [diff |-> Len(route), closest_light |-> None, line_wp_idx |-> -1])

\* TLDetector.get_light_state.
get_light_state(hasImage, classifier, cls, score) ==
    IF hasImage # PyTrue \/ classifier = None THEN "RED"
    ELSE get_classification(cls, score)

(* ----------------------------------------------------------------------- *)
(* tl_detector.py: image_cb                                                *)
(* ----------------------------------------------------------------------- *)

MutStateChangedButUnknown(old, new) == old # new /\ new # "UNKNOWN"

MutStateChangedOnGreen(old, new) == old # new \/ new = "GREEN"

\* `if self.state != state`.
StateChanged(old, new) == old # new

MutThresholdOne(count) == count >= 1

\* `elif self.state_count >= STATE_COUNT_THRESHOLD`.
ThresholdReached(count) == count >= STATE_COUNT_THRESHOLD

\* `light_wp if state == TrafficLight.RED else -1`.
StopIndex(st, wp) == IF st = "RED" THEN wp ELSE -1

\* image_cb raises: what it had assigned stays, nothing is published.
Raise(error, loc) ==
    /\ cb' = error
    /\ published' = << >>
    /\ closest_light' = loc.closest_light
    /\ light_wp' = loc.line_wp_idx
    /\ UNCHANGED <<raw, detFusion>>

\* Lines 94-107 of image_cb, with the (light_wp, state) it got.
Debounce(loc, st) ==
    /\ cb' = "ok"
    /\ closest_light' = loc.closest_light
    /\ light_wp' = loc.line_wp_idx
    /\ raw' = st
    /\ run' = IF st = raw THEN run + 1 ELSE 1
    /\ run' <= MaxCount
    /\ nonred' = IF st = "RED" THEN 0 ELSE Min(nonred + 1, MaxCount)
    /\ frames' = Min(frames + 1, MaxCount)
    /\ IF StateChanged(state, st)
       THEN /\ state' = st
            /\ state_count' = 0 + 1
            /\ published' = << >>
            /\ UNCHANGED <<last_state, last_wp>>
       ELSE IF ThresholdReached(state_count)
       THEN /\ last_state' = state
            /\ last_wp' = StopIndex(st, loc.line_wp_idx)
            /\ published' = <<StopIndex(st, loc.line_wp_idx)>>
            /\ state_count' = state_count + 1
            /\ UNCHANGED state
       ELSE /\ published' = <<last_wp>>
            /\ state_count' = state_count + 1
            /\ UNCHANGED <<state, last_state, last_wp>>
    /\ state_count' <= MaxCount

\* image_cb for one frame.  car_idx and idxs are what the tree lookups return,
\* (cls, score) is the detection graph's answer for the frame.
image_cb ==
    /\ ctor # "fields"
    /\ UNCHANGED detOutside
    /\ UNCHANGED detInputs
    /\ IF waypoint_tree = None
       THEN /\ cb' = "no_tree"
            /\ published' = << >>
            /\ closest_light' = None
            /\ light_wp' = -1
            /\ UNCHANGED <<has_image, raw, detFusion>>
       ELSE /\ has_image' = PyTrue
            /\ IF config = Unset
               THEN Raise("AttributeError", NotLocated)
               ELSE \E car_idx \in (IF pose = None THEN {0}
                                    ELSE ClosestWaypoints(waypoints_2d, pose)) :
                    \E idxs \in (IF pose = None THEN {<< >>}
                                 ELSE StopLineIdxs(waypoints_2d, lights, config)) :
                        LET loc == process_traffic_lights(pose, waypoints, lights,
                                                          car_idx, idxs)
                        IN  IF loc.closest_light = None
                            THEN Raise("UnboundLocalError", loc)
                            ELSE IF state = Unset
                            THEN Raise("AttributeError", loc)
                            ELSE \E cls \in Classes, score \in Scores :
                                    Debounce(loc,
                                             get_light_state(PyTrue, light_classifier,
                                                             cls, score))

(* ----------------------------------------------------------------------- *)
(* tl_detector.py: __init__ and the other callbacks                        *)
(* ----------------------------------------------------------------------- *)

detObserved == <<cb, published, closest_light, light_wp, raw>>

\* Lines 33-36: the subscribers are registered; callbacks may fire from here.
Subscribe ==
    /\ UNCHANGED detOutside
    /\ ctor = "fields"
    /\ ctor' = "subscribed"
    /\ UNCHANGED <<light_classifier, pose, waypoints, waypoints_2d, waypoint_tree,
                   lights, config, has_image, detFusion, detObserved>>

\* Lines 38-39: the stop-line configuration is read.
LoadConfig(stop_line_positions) ==
    /\ UNCHANGED detOutside
    /\ ctor = "subscribed"
    /\ ctor' = "config"
    /\ config' = stop_line_positions
    /\ UNCHANGED <<light_classifier, pose, waypoints, waypoints_2d, waypoint_tree,
                   lights, has_image, detFusion, detObserved>>

\* Lines 41-44: the publisher, the bridge and the listener are created.
CreatePublisher ==
    /\ UNCHANGED detOutside
    /\ ctor = "config"
    /\ ctor' = "publisher"
    /\ UNCHANGED <<light_classifier, pose, waypoints, waypoints_2d, waypoint_tree,
                   lights, config, has_image, detFusion, detObserved>>

\* Lines 46-49: the debounce state is initialised.
InitFusion ==
    /\ UNCHANGED detOutside
    /\ ctor = "publisher"
    /\ ctor' = "fusion"
    /\ state' = "UNKNOWN"
    /\ last_state' = "UNKNOWN"
    /\ last_wp' = -1
    /\ state_count' = 0
    /\ run' = 0
    /\ nonred' = 0
    /\ frames' = 0
    /\ UNCHANGED <<light_classifier, pose, waypoints, waypoints_2d, waypoint_tree,
                   lights, config, has_image, detObserved>>

\* Line 52: the classifier is loaded, then __init__ spins.
LoadClassifier ==
    /\ UNCHANGED detOutside
    /\ ctor = "fusion"
    /\ ctor' = "spin"
    /\ light_classifier' = <<"TLClassifier">>
    /\ UNCHANGED <<pose, waypoints, waypoints_2d, waypoint_tree, lights, config,
                   has_image, detFusion, detObserved>>

pose_cb(msg) ==
    /\ UNCHANGED detOutside
    /\ ctor # "fields"
    /\ pose' = msg
    /\ UNCHANGED <<ctor, light_classifier, waypoints, waypoints_2d, waypoint_tree,
                   lights, config, has_image, detFusion, detObserved>>

waypoints_cb(msg) ==
    /\ UNCHANGED detOutside
    /\ ctor # "fields"
    /\ waypoints' = msg
    /\ IF waypoints_2d = None
       THEN /\ waypoints_2d' = Waypoints2D(msg)
            /\ waypoint_tree' = Waypoints2D(msg)
       ELSE UNCHANGED <<waypoints_2d, waypoint_tree>>
    /\ UNCHANGED <<ctor, light_classifier, pose, lights, config, has_image,
                   detFusion, detObserved>>

traffic_cb(msg) ==
    /\ UNCHANGED detOutside
    /\ ctor # "fields"
    /\ lights' = msg
    /\ UNCHANGED <<ctor, light_classifier, pose, waypoints, waypoints_2d,
                   waypoint_tree, config, has_image, detFusion, detObserved>>

\* The detector after lines 24-31 of __init__.
DetectorInit ==
    /\ ctor = "fields"
    /\ light_classifier = None
    /\ pose = None
    /\ waypoints = None
    /\ waypoints_2d = None
    /\ waypoint_tree = None
    /\ lights = << >>
    /\ config = Unset
    /\ has_image = Unset
    /\ state = Unset
    /\ last_state = Unset
    /\ last_wp = Unset
    /\ state_count = Unset
    /\ cb = "none"
    /\ published = << >>
    /\ closest_light = None
    /\ light_wp = -1
    /\ raw = "None"
    /\ run = 0
    /\ nonred = 0
    /\ frames = 0

\* The detector with its debounce state initialised and the classifier loaded.
DetectorIdle ==
    /\ ctor = "spin"
    /\ light_classifier = <<"TLClassifier">>
    /\ pose = None
    /\ waypoints = None
    /\ waypoints_2d = None
    /\ waypoint_tree = None
    /\ lights = << >>
    /\ config = StopLinesA
    /\ has_image = Unset
    /\ state = "UNKNOWN"
    /\ last_state = "UNKNOWN"
    /\ last_wp = -1
    /\ state_count = 0
    /\ cb = "none"
    /\ published = << >>
    /\ closest_light = None
    /\ light_wp = -1
    /\ raw = "None"
    /\ run = 0
    /\ nonred = 0
    /\ frames = 0

DetectorNext ==
    \/ Subscribe
    \/ LoadConfig(StopLinesA)
    \/ CreatePublisher
    \/ InitFusion
    \/ LoadClassifier
    \/ \E msg \in DetectorPoses : pose_cb(msg)
    \/ \E msg \in Routes : waypoints_cb(msg)
    \/ \E k \in 0..Len(StopLinesA) : traffic_cb(LightsMsg(k))
    \/ image_cb

\* Both nodes constructed as far as their first callbacks; no lookup yet.
Init ==
    DetectorInit /\ PlannerInit /\ lookup = NoLookup(LongRoute) /\ ControllerInit

SpecDetector == Init /\ [][DetectorNext]_vars

(* ----------------------------------------------------------------------- *)
(* process_traffic_lights over every car position of the long route        *)
(* ----------------------------------------------------------------------- *)

\* Every waypoint of the long route and the point one unit past it.
LocatePoses == {RoutePoint(k, j) : k \in 0..(2 * (RectW + RectH) - 1), j \in {0, 1}}

\* The detector with its debounce state initialised and the classifier still
\* loading, the long route received, any car position, either stop-line
\* configuration and any number of tracked lights.
LocateInit ==
    /\ ctor = "fusion"
    /\ light_classifier = None
    /\ pose \in LocatePoses
    /\ waypoints = LongRoute
    /\ waypoints_2d = Waypoints2D(LongRoute)
    /\ waypoint_tree = Waypoints2D(LongRoute)
    /\ config \in {StopLinesA, StopLinesB}
    /\ lights \in {LightsMsg(k) : k \in 0..Len(config)}
    /\ has_image = Unset
    /\ state = "UNKNOWN"
    /\ last_state = "UNKNOWN"
    /\ last_wp = -1
    /\ state_count = 0
    /\ cb = "none"
    /\ published = << >>
    /\ closest_light = None
    /\ light_wp = -1
    /\ raw = "None"
    /\ run = 0
    /\ nonred = 0
    /\ frames = 0

InitLocate ==
    LocateInit /\ PlannerInit /\ lookup = NoLookup(LongRoute) /\ ControllerInit

SpecLocate == InitLocate /\ [][image_cb]_vars

(* ----------------------------------------------------------------------- *)
(* The planner and the lookup on their own                                 *)
(* ----------------------------------------------------------------------- *)

InitPlanner ==
    DetectorIdle /\ PlanInit /\ lookup = NoLookup(LongRoute) /\ ControllerInit

SpecPlanner == InitPlanner /\ [][loop]_vars

InitLookup ==
    DetectorIdle /\ PlannerInit /\ LookupInit /\ ControllerInit

SpecLookup == InitLookup /\ [][LookupNext]_vars

SpecLookupNear == InitLookup /\ [][LookupNear]_vars

(* ----------------------------------------------------------------------- *)
(* Specification of the route messages: both nodes receive /base_waypoints *)
(* ----------------------------------------------------------------------- *)

\* The routes /base_waypoints delivers, a first one and its replacements.
RouteMessages ==
    Routes \cup {RectRoute(2, 1, Spacing), RectRoute(1, 2, Spacing)}

\* A route message arrives at the detector or at the planner.
RoutesNext ==
    \E msg \in RouteMessages : waypoints_cb(msg) \/ wu_waypoints_cb(msg)

InitRoutes ==
    DetectorIdle /\ PlannerInit /\ lookup = NoLookup(LongRoute) /\ ControllerInit

SpecRoutes == InitRoutes /\ [][RoutesNext]_vars

(* ----------------------------------------------------------------------- *)
(* Specification of the controller: control ticks at irregular times       *)
(* ----------------------------------------------------------------------- *)

InitController ==
    DetectorIdle /\ PlannerInit /\ lookup = NoLookup(LongRoute) /\ ControllerInit

SpecController == InitController /\ [][ControllerNext]_vars

(* ----------------------------------------------------------------------- *)
(* Properties of the detector                                              *)
(* ----------------------------------------------------------------------- *)

\* The last image_cb reached the debounce step (lines 94-107).
Debounced == state # Unset /\ cb = "ok"

\* A step in which image_cb reaches its debounce step: image_cb is the only
\* action that leaves the detector's inputs as they are.
DebounceStep == cb' = "ok" /\ UNCHANGED detInputs

\* C1: from the initial fusion state, with every frame classified RED for a
\* located stop line, nothing other than -1 is published on frames 1 and 2 and
\* the located stop line is published on frame 3.
C1_StopOnThirdRedFrame ==
    (Debounced /\ raw = "RED" /\ run = frames /\ frames <= STATE_COUNT_THRESHOLD)
        => IF frames < STATE_COUNT_THRESHOLD
           THEN published \in {<< >>, <<-1>>}
           ELSE published = <<light_wp>>

\* C2: a frame with fewer than STATE_COUNT_THRESHOLD identical raw
\* classifications behind it leaves last_wp as it was, and what it publishes,
\* if anything, is the previously published last_wp.
C2_NoCommitBeforeThreshold ==
    [][(DebounceStep /\ run' - 1 < STATE_COUNT_THRESHOLD)
          => (last_wp' = last_wp /\ published' \in {<< >>, <<last_wp>>})]_detVars

\* C2 witness: a third GREEN frame in a row has republished a committed stop.
C2_Witness ==
    /\ Debounced
    /\ raw = "GREEN"
    /\ run = STATE_COUNT_THRESHOLD
    /\ last_wp >= 0
    /\ published = <<last_wp>>

\* C3: after STATE_COUNT_THRESHOLD or more consecutive frames classified other
\* than RED, the committed and published stop index is -1.
C3_ReleaseAfterThresholdNonRed ==
    (Debounced /\ nonred >= STATE_COUNT_THRESHOLD)
        => (last_wp = -1 /\ published = <<-1>>)

\* C4: with a stop committed, a RED frame, or a first UNKNOWN frame after
\* another classification, never publishes or commits -1; while the located
\* stop line is the committed one, the committed index stays what it was.
C4_SingleUnknownKeepsStop ==
    [][(/\ DebounceStep
        /\ last_state = "RED"
        /\ last_wp >= 0
        /\ raw' = "RED" \/ (raw' = "UNKNOWN" /\ run' = 1))
          => (/\ published' # <<-1>>
              /\ last_wp' >= 0
              /\ published' \in {<< >>, <<last_wp>>, <<light_wp'>>}
              /\ light_wp' = last_wp
                    => (last_wp' = last_wp /\ published' \in {<< >>, <<last_wp>>}))
      ]_detVars

\* C4 witness: a single UNKNOWN frame has been processed with a stop committed,
\* and nothing was published for it.
C4_Witness ==
    /\ Debounced
    /\ raw = "UNKNOWN"
    /\ run = 1
    /\ last_state = "RED"
    /\ last_wp >= 0
    /\ published = << >>

\* C5: a frame processed while the classifier is not loaded is classified RED
\* and image_cb does not publish -1 for it.
C5_FailSafeWhileClassifierLoads ==
    (Debounced /\ light_classifier = None)
        => (raw = "RED" /\ published # <<-1>>)

\* C6: image_cb never ends in process_traffic_lights' unbound local `state`:
\* with no pose, no tracked light or no light ahead it still reaches its
\* debounce step.
C6_NoLightIsNoFailure == cb # "UnboundLocalError"

\* The lights with an eligible stop line: 0 <= stopIndex - carIndex < n.
EligibleLights(car, idxs, n) ==
    {i \in 1..Len(idxs) : idxs[i] - car >= 0 /\ idxs[i] - car < n}

\* C7: process_traffic_lights selects, among the lights whose stop line has
\* an offset 0 <= d < routeLength from the car, the one with the least offset
\* and, of several such, the first in enumeration order; line_wp_idx is its
\* stop-line index.
C7_NearestLightAheadFirstOnTies ==
    [][(UNCHANGED detInputs /\ waypoint_tree # None /\ config # Unset /\ pose # None)
          => \E car \in ClosestWaypoints(waypoints_2d, pose) :
             \E idxs \in StopLineIdxs(waypoints_2d, lights, config) :
                LET E == EligibleLights(car, idxs, Len(waypoints))
                IN  E # {} =>
                      \E b \in E :
                         /\ \A j \in E : idxs[b] - car <= idxs[j] - car
                         /\ \A j \in E : idxs[j] - car = idxs[b] - car => b <= j
                         /\ closest_light' = lights[b]
                         /\ light_wp' = idxs[b]
      ]_detVars

\* C7 witness: with four lights tracked, the second behind the car and the
\* first and the fourth on one stop line ahead of it, past the third, the first
\* light has been selected.
C7_Witness ==
    /\ cb = "ok"
    /\ config = StopLinesB
    /\ Len(lights) = 4
    /\ pose = RoutePoint(13, 0)
    /\ closest_light = lights[1]
    /\ light_wp = 40

(* ----------------------------------------------------------------------- *)
(* Properties of the nearest-waypoint lookup                               *)
(* ----------------------------------------------------------------------- *)

\* The index after seg on the closed route of the lookup.
NextOnRoute == (lookup.seg + 1) % Len(lookup.route)

\* The vector from waypoint seg of the lookup's route to the next waypoint.
SegmentDirection ==
    LET w2d == Waypoints2D(lookup.route)
    IN  Sub(PyIndex(w2d, NextOnRoute), PyIndex(w2d, lookup.seg))

\* The closest waypoint is an end of the segment the position lies on, and
\* the route runs forward along that segment from the waypoint `back` places
\* before the closest one: the dot product with the segment is positive.
RunsForwardFrom(back) ==
    LET w2d == Waypoints2D(lookup.route)
        c == lookup.closest_idx
    IN  /\ c \in {lookup.seg, NextOnRoute}
        /\ Dot(Sub(PyIndex(w2d, c), PyIndex(w2d, c - back)), SegmentDirection) > 0

Lane == final_waypoints[1]

\* C9: on a route of at least LOOKAHEAD_WPS waypoints, with no stop index or
\* one at or past the horizon, the lane holds exactly LOOKAHEAD_WPS waypoints,
\* those of the closed route from the car index on, with the route's
\* velocities.
C9_BaseCaseFullHorizon ==
    (/\ final_waypoints # << >>
     /\ Len(base_waypoints) >= LOOKAHEAD_WPS
     /\ stopline_wp_idx = -1 \/ stopline_wp_idx >= closest_idx + LOOKAHEAD_WPS)
        => /\ Len(Lane) = LOOKAHEAD_WPS
           /\ \A k \in 1..LOOKAHEAD_WPS :
                 Lane[k] = RouteWaypoint(PyIndex(base_waypoints,
                               (closest_idx + k - 1) % Len(base_waypoints)))

\* C10: with a stop index ahead of the car and within the horizon, the lane
\* holds stopIndex - carIndex waypoints, the waypoint at
\* stopOffset = max(stopIndex - carIndex - 2, 0) among them.
C10_DecelCoversCarToStop ==
    (/\ final_waypoints # << >>
     /\ stopline_wp_idx > closest_idx
     /\ stopline_wp_idx < closest_idx + LOOKAHEAD_WPS)
        => LET at_stop == PyIndex(base_waypoints,
                              closest_idx + Max(stopline_wp_idx - closest_idx - 2, 0))
           IN  /\ Len(Lane) = stopline_wp_idx - closest_idx
               /\ \E k \in 1..Len(Lane) :
                     Lane[k].x = at_stop.x /\ Lane[k].y = at_stop.y

\* The last pass of loop took the deceleration branch of generate_lane.
Decelerating ==
    /\ final_waypoints # << >>
    /\ stopline_wp_idx # -1
    /\ stopline_wp_idx < closest_idx + LOOKAHEAD_WPS

\* The list generate_lane hands to decelerate_waypoints.
CarToStop == PySlice(base_waypoints, closest_idx, stopline_wp_idx)

\* The square of the velocity that stops the car over the path from offset i
\* (0-based) of CarToStop to the stop offset: sqrt(2 * MAX_DECEL * dist),
\* taken as 0 below 0.5.
StoppingVelocity2(i) ==
    LET dist == PathLength(CarToStop, i,
                           Max(stopline_wp_idx - closest_idx - 2, 0))
        vsq == 2 * MAX_DECEL * dist
    IN  IF 4 * vsq < 1 THEN 0 ELSE vsq

\* C11: in the deceleration case the waypoint at offset i of the lane has the
\* velocity min(nominal_i, clamp(sqrt(2 * MAX_DECEL * dist_i))), dist_i the
\* path length from offset i to the stop offset; none exceeds its nominal
\* velocity.
C11_VelocityFromRemainingDistance ==
    Decelerating
        => \A k \in 1..Len(Lane) :
              /\ Lane[k].vsq = Min(StoppingVelocity2(k - 1),
                                   CarToStop[k].v * CarToStop[k].v)
              /\ Lane[k].vsq <= CarToStop[k].v * CarToStop[k].v

\* C12: in the deceleration case the velocities of the lane do not increase
\* from one waypoint to the next and the last waypoint has velocity 0.
C12_MonotoneDecelerationToStop ==
    (Decelerating /\ Len(Lane) >= 1)
        => /\ Lane[Len(Lane)].vsq = 0
           /\ \A k \in 1..(Len(Lane) - 1) : Lane[k + 1].vsq <= Lane[k].vsq

\* C19: every lane a pass of loop publishes holds at least one waypoint.
C19_LaneNeverEmpty == final_waypoints # << >> => Len(Lane) >= 1

(* ----------------------------------------------------------------------- *)
(* Properties of the two lookups side by side                              *)
(* ----------------------------------------------------------------------- *)

\* C16: for every route and every position the planner's
\* get_closest_waypoint_idx returns the index the detector's
\* get_closest_waypoint returns.
C16_PlannerLookupIsDetectorLookup ==
    lookup.closest_idx # -1 => lookup.waypoint_updater = lookup.tl_detector

(* ----------------------------------------------------------------------- *)
(* Properties of the detector's counter and of its construction            *)
(* ----------------------------------------------------------------------- *)

\* C17 as stated: state_count lies in 0..STATE_COUNT_THRESHOLD in every state.
C17_CounterWithinThreshold ==
    state # Unset => (0 <= state_count /\ state_count <= STATE_COUNT_THRESHOLD)

\* C17 amended: state_count is never negative and is not capped at the
\* threshold: once a frame has been debounced it is the number of frames in a
\* row debounced with the current classification, at least 1.
C17_CounterCountsMatchingFrames ==
    state # Unset
        => /\ state_count >= 0
           /\ (frames > 0 => (state_count = run /\ state_count >= 1))

\* C17 witness: a fourth frame in a row with one classification has been
\* debounced and the counter has passed the threshold.
C17_Witness ==
    /\ Debounced
    /\ run = STATE_COUNT_THRESHOLD + 1
    /\ state_count = STATE_COUNT_THRESHOLD + 1

\* C20: under every interleaving of __init__ with the callbacks, no image_cb
\* that passes the waypoint_tree guard reads the stop-line configuration, the
\* debounce state or the publisher before __init__ has assigned them: none
\* ends in an AttributeError.
C20_NoReadBeforeConstructed == cb # "AttributeError"

(* ----------------------------------------------------------------------- *)
(* Properties of the route and its index                                   *)
(* ----------------------------------------------------------------------- *)

\* C18: after any sequence of route messages the index of each node is built
\* from the route the node has stored.
C18_IndexOfStoredRoute ==
    /\ waypoints_2d # None
          => (waypoints_2d = Waypoints2D(waypoints) /\ waypoint_tree = waypoints_2d)
    /\ wu_waypoints_2d # None
          => (/\ wu_waypoints_2d = Waypoints2D(base_waypoints)
              /\ wu_waypoint_tree = wu_waypoints_2d)

(* ----------------------------------------------------------------------- *)
(* Properties of the controller                                            *)
(* ----------------------------------------------------------------------- *)

\* C13: a call of control with drive-by-wire disabled returns (0, 0, 0),
\* clears the integral memory of the throttle PID and steps neither the
\* filter nor the PID; the first enabled call after a disabled one starts its
\* PID step from integral memory 0.
C13_DisabledTickResets ==
    [][tick'.count = tick.count + 1
          => /\ ~tick'.dbw_enabled
                   => /\ command' = <<0, 0, 0>>
                      /\ throttle_controller'.int_val = 0
                      /\ throttle_controller'.last_error = throttle_controller.last_error
                      /\ velocity_lpf' = velocity_lpf
             /\ (tick'.dbw_enabled /\ tick.count >= 1 /\ ~tick.dbw_enabled)
                   => tick'.int_val = 0]_vars

\* C13 witness: an enabled call, a disabled call and an enabled call again,
\* which started from integral memory 0 and left an integral behind.
C13_Witness ==
    /\ tick.count = 3
    /\ tick.dbw_enabled
    /\ ~tick.after_enabled
    /\ tick.int_val = 0
    /\ throttle_controller.int_val # 0

\* The target is 0 and the filtered velocity below 0.1 m/s at the last call.
FullStop == tick.linear_velocity = 0 /\ tick.current_velocity < 10

\* The PID throttle is below 0.1 and the car faster than the target.
TooFast == tick.throttle < 10000 /\ tick.velocity_error < 0

\* C14: after every enabled call, with t the throttle of the PID, v the
\* filtered velocity and e = target - v: (a) target 0 and v < 0.1 give
\* throttle 0 and brake 400; (b) otherwise t < 0.1 and e < 0 give throttle t
\* and brake |max(e, decel_limit)| * vehicle_mass * wheel_radius; (c)
\* otherwise throttle t and brake 0; the brake is never negative.
C14_BrakingPolicy ==
    tick.dbw_enabled
        => /\ tick.velocity_error = tick.linear_velocity - tick.current_velocity
           /\ FullStop => (command[1] = 0 /\ command[2] = 400 * 10000)
           /\ (~FullStop /\ TooFast)
                 => /\ command[1] = tick.throttle
                    /\ command[2] = Abs(Max(tick.velocity_error, decel_limit))
                                        * vehicle_mass * wheel_radius
           /\ (~FullStop /\ ~TooFast)
                 => (command[1] = tick.throttle /\ command[2] = 0)
           /\ command[2] >= 0

\* C14 witness: target 0 at 0.05 m/s, where the conditions of (a) and of (b)
\* both hold, and the hold torque is applied.
C14_Witness ==
    /\ tick.dbw_enabled
    /\ tick.linear_velocity = 0
    /\ tick.current_velocity = 5
    /\ TooFast
    /\ command[1] = 0
    /\ command[2] = 400 * 10000

\* C15: the sample time of every enabled call but the first call is the time
\* elapsed since the call before it.
C15_SampleTimeSincePreviousTick ==
    (tick.count >= 2 /\ tick.dbw_enabled) => tick.sample_time = tick.since_previous

====
